---- MODULE Spec2Model ----
(***************************************************************************)
(* Verification model of the rpscript "basic" verb library                 *)
(* (TYPECASTINGSG/rpscript-api-basic).                                     *)
(*                                                                         *)
(* Three components of the library are modelled, each with its own         *)
(* specification over the same variables:                                  *)
(*   SpecVars  - the variable table written by the verbs as / assign       *)
(*   SpecCurry - the verbs that route their arguments through ramda's      *)
(*               curry (pow, abs, math-min, math-max) and the callables    *)
(*               they return                                               *)
(*   SpecWait  - the non-blocking wait(period, response) verb              *)
(*                                                                         *)
(* JavaScript strings are sequences of one-character strings; JavaScript   *)
(* values are records [t |-> <typeof tag>, v |-> <payload>].               *)
(***************************************************************************)
EXTENDS Integers, Sequences, FiniteSets, TLC

(***************************************************************************)
(* Bounds of the model.                                                    *)
(***************************************************************************)
MaxNameLen == 2      \* longest raw variable name handed to as / assign
MaxCalls == 2        \* verb calls on one context in the variable-table runs
MaxArgs == 3         \* most arguments handed to one call of a verb or callable
MaxSupplied == 3     \* most arguments handed over in one chain of calls
MaxDepth == 2        \* most invocations of returned callables in one chain
MaxPeriod == 2       \* longest period, in seconds, handed to wait
MaxTime == 3         \* seconds of timer time a run follows
MaxHeard == 1        \* listener callbacks a run follows
MaxEvalArgs == 2     \* most arguments handed to evaluate, and to the callable it returns
MaxPath == 2         \* most keys handed to getElement
MaxInvocations == 3  \* most calls made of one callable a verb returned
MaxBind == 27        \* most arguments handed to evaluate in the runs on the binding

(***************************************************************************)
(* JavaScript values.                                                      *)
(***************************************************************************)
Undefined == [t |-> "undefined", v |-> 0]
Null == [t |-> "null", v |-> 0]
Num(n) == [t |-> "number", v |-> n]
NaN == [t |-> "NaN", v |-> 0]
Bool(b) == [t |-> "boolean", v |-> IF b THEN 1 ELSE 0]
\* a string value is represented by its length
Str(n) == [t |-> "string", v |-> n]

\* ToBoolean: undefined, null, NaN, 0, false and "" are falsy
Truthy(val) ==
  ~ \/ val.t \in {"undefined", "null", "NaN"}
    \/ val.t \in {"number", "boolean", "string"} /\ val.v = 0

\* The values a script hands to as / assign: undefined, null, falsy and truthy.
AssignValues == {Undefined, Null, Num(0), Num(5)}

(***************************************************************************)
(* Strings: variable names.                                                *)
(***************************************************************************)
Chars == {"$", " ", "x"}

RECURSIVE SeqsUpTo(_)
SeqsUpTo(n) ==
  IF n = 0 THEN {<<>>}
  ELSE LET shorter == SeqsUpTo(n - 1)
       IN shorter \cup {Append(s, c) : s \in {q \in shorter : Len(q) = n - 1}, c \in Chars}

RawNames == SeqsUpTo(MaxNameLen)

IsSpace(c) == c = " "

\* String.prototype.trim: drop the leading and the trailing white space
RECURSIVE TrimStart(_)
TrimStart(s) ==
  IF s # <<>> /\ IsSpace(Head(s)) THEN TrimStart(Tail(s)) ELSE s

RECURSIVE TrimEnd(_)
TrimEnd(s) ==
  IF s # <<>> /\ IsSpace(s[Len(s)]) THEN TrimEnd(SubSeq(s, 1, Len(s) - 1)) ELSE s

trim(s) == TrimEnd(TrimStart(s))

\* String.prototype.charAt(0): the empty string when there is no character
charAt0(s) == IF s = <<>> THEN "" ELSE s[1]

\* the name with one leading '$' removed (the form a script writes after '$')
stripDollar(s) == IF charAt0(s) = "$" THEN Tail(s) ELSE s

(***************************************************************************)
(* State.                                                                  *)
(***************************************************************************)
VARIABLES
  variables,   \* ctx.variables: key -> value, DOMAIN = the keys present
  RESULT,      \* ctx.$RESULT
  writtenAs,   \* history: key -> trimmed name of the call that last wrote it
  vlast,       \* the most recent as / assign call and what its promise resolved to
  ncalls,      \* number of verb calls made on the context
  cur,         \* curried verbs: the value the last call of the chain returned
  cverb,       \* the verb that started the chain
  chain,       \* the argument lists of the chain: the verb call, then each invocation
  clast,       \* the last call of the chain: a verb call or an invocation, and its target
  ph,          \* TRUE once the script holds the placeholder returned by verb '__'
  now,         \* wait: the timer clock, in milliseconds
  timer,       \* the timeout set by wait: due time and the response its callback captured
  promise,     \* the promise wait returned: pending, or resolved with a value
  wlast,       \* the wait call: its arguments and ctx.$RESULT when it was made
  pc,          \* the thread: "idle", or "stalling" inside Atomics.wait
  stall,       \* the blocking wait in progress: when it began and ends, what it returns
  listening,   \* the listener registered on the event: "none", "on" or "once"
  heard,       \* number of listener callbacks run
  ev,          \* the evaluate call: options, text, arguments, compilations, outcome
  late,        \* the last call of the callable evaluate returned, and its outcome
  got,         \* the getElement call: container, keys and outcome
  out,         \* the last call of log, stdout or data-type: argument, output, result
  proc,        \* the process: running, or exited by verb exit with a status
  hist,        \* the calls made of the callable a verb returned: arguments and result
  twin         \* the two timer revisions of wait called side by side with a period

varsEnv == <<variables, writtenAs, vlast, ncalls>>

varsCurry == <<cur, cverb, chain, clast, ph>>

varsWait == <<now, timer, promise, wlast>>

varsBlock == <<pc, stall, listening, heard>>

\* the state of the verbs that keep no state on the context
varsEval == <<ev, late>>

varsLate == <<proc, hist, twin>>

varsMore == <<varsBlock, varsEval, got, out, varsLate>>

vars == <<variables, RESULT, writtenAs, vlast, ncalls, cur, cverb, chain, clast, ph,
          now, timer, promise, wlast, pc, stall, listening, heard, ev, late, got, out, proc, hist, twin>>

\* JavaScript runs one callback at a time on one thread: nothing else starts
\* while Atomics.wait holds the thread
threadFree_yield == TRUE

threadFree == pc # "stalling"

NoCall == [verb |-> "none", variable |-> <<>>, value |-> Undefined,
           settled |-> "none", result |-> Undefined]

\* obj[key] = value on a plain object
Put(obj, key, value) ==
  [k \in DOMAIN obj \cup {key} |-> IF k = key THEN value ELSE obj[k]]

\* obj[key]: undefined when the key is absent
Get(obj, key) == IF key \in DOMAIN obj THEN obj[key] ELSE Undefined

EmptyObj == [k \in {} |-> Undefined]

NoInvocation == [op |-> "none", target |-> Undefined, args |-> <<>>]

NoTimer == [active |-> FALSE, callback |-> "none", due |-> 0, response |-> Undefined]

NoPromise == [state |-> "none", value |-> Undefined]

NoStall == [from |-> 0, until |-> 0, res |-> Undefined]

NoEval == [called |-> FALSE, function |-> Undefined, expression |-> <<>>,
           args |-> <<>>, objArg |-> Undefined, expr |-> Undefined, compiles |-> 0,
           out |-> Undefined]

NoLate == [called |-> FALSE, fnargs |-> <<>>, out |-> Undefined]

NoOutput == [verb |-> "none", arg |-> Undefined, written |-> <<>>, result |-> Undefined]

NoGet == [called |-> FALSE, items |-> Undefined, position |-> <<>>, out |-> Undefined]

\* a plain object with the given properties
Obj(props) == [t |-> "object", v |-> 0, props |-> props]

NoWait == [called |-> FALSE, revision |-> "none", supplied |-> FALSE,
           response |-> Undefined, period |-> 0, at |-> 0, result |-> Undefined]

(***************************************************************************)
(* as / assign                                                             *)
(***************************************************************************)
\* if(variable.charAt(0)!=='$') variable = '$'+variable;
dollarKey(variable) ==
  IF charAt0(variable) # "$" THEN <<"$">> \o variable ELSE variable

\* the two stores of as / assign, in order, on the trimmed name
storeBoth_aliasOnly(table, variable, value) ==
  Put(table, dollarKey(variable), value)

storeBoth_nameOnly(table, variable, value) ==
  Put(table, variable, value)

storeBoth_keepFirst(table, variable, value) ==
  LET first == IF variable \in DOMAIN table THEN table ELSE Put(table, variable, value)
  IN IF dollarKey(variable) \in DOMAIN first THEN first
     ELSE Put(first, dollarKey(variable), value)

storeBoth(table, variable, value) ==
  Put(Put(table, variable, value), dollarKey(variable), value)

\* Promise.resolve(value) for a value that is no thenable
promiseResolve_falsy(value) == IF Truthy(value) THEN value ELSE Undefined

promiseResolve(value) == value

as(variable, value) ==
  /\ ncalls < MaxCalls
  /\ LET name == trim(variable)
         table == storeBoth(variables, name, value)
     IN /\ variables' = table
        /\ writtenAs' = Put(Put(writtenAs, name, name), dollarKey(name), name)
        /\ vlast' = [verb |-> "as", variable |-> variable, value |-> value,
                     settled |-> "resolved",
                     result |-> promiseResolve(value)]
  /\ ncalls' = ncalls + 1
  /\ UNCHANGED <<RESULT, varsCurry, varsWait, varsMore>>

assign(variable, value) ==
  /\ ncalls < MaxCalls
  /\ LET name == trim(variable)
         table == storeBoth(variables, name, value)
     IN /\ variables' = table
        /\ writtenAs' = Put(Put(writtenAs, name, name), dollarKey(name), name)
        /\ vlast' = [verb |-> "assign", variable |-> variable, value |-> value,
                     settled |-> "resolved",
                     result |-> promiseResolve(value)]
  /\ ncalls' = ncalls + 1
  /\ UNCHANGED <<RESULT, varsCurry, varsWait, varsMore>>

InitCtx ==
  /\ variables = EmptyObj
  /\ RESULT = Undefined
  /\ writtenAs = EmptyObj
  /\ vlast = NoCall
  /\ ncalls = 0

InitCurry ==
  /\ cur = Undefined
  /\ cverb = "none"
  /\ chain = <<>>
  /\ clast = NoInvocation
  /\ ph = FALSE

InitWait ==
  /\ now = 0
  /\ timer = NoTimer
  /\ promise = NoPromise
  /\ wlast = NoWait

InitBlock ==
  /\ pc = "idle"
  /\ stall = NoStall
  /\ listening = "none"
  /\ heard = 0

InitEval ==
  /\ ev = NoEval
  /\ late = NoLate

InitLate ==
  /\ proc = [exited |-> FALSE, code |-> Undefined, status |-> 0]
  /\ hist = <<>>
  /\ twin = [called |-> FALSE, at |-> 0, period |-> 0, due |-> 0, fired |-> FALSE,
             response |-> Undefined, byPeriod |-> NoPromise, byResponse |-> NoPromise]

InitVars ==
  /\ InitCtx /\ InitCurry /\ InitWait /\ InitBlock /\ InitEval
  /\ got = NoGet /\ out = NoOutput /\ InitLate

NextVars ==
  \/ \E variable \in RawNames, value \in AssignValues : as(variable, value)
  \/ \E variable \in RawNames, value \in AssignValues : assign(variable, value)

SpecVars == InitVars /\ [][NextVars]_vars

(***************************************************************************)
(* Properties of the variable table (SpecVars).                            *)
(***************************************************************************)
Holds(table, key, value) == key \in DOMAIN table /\ table[key] = value

IsPrefixed(name) == name # <<>> /\ name[1] = "$"

\* the name with a '$' in front, added only when it has none
Prefixed(name) == IF IsPrefixed(name) THEN name ELSE <<"$">> \o name

Assigned == vlast.verb \in {"as", "assign"}

\* C1 (as stated): after as/assign(ctx, n, v) the table holds v under the
\* '$'-prefixed form of the trimmed name and under the form with the leading
\* '$' stripped, whether or not n has a leading '$'.
C1_BothFormsAlways ==
  Assigned =>
    LET n == trim(vlast.variable)
    IN /\ Holds(variables, <<"$">> \o stripDollar(n), vlast.value)
       /\ Holds(variables, stripDollar(n), vlast.value)

\* C1 (amended): after as/assign(ctx, n, v) the table holds v under the trimmed
\* name as given and under its '$'-prefixed form (the '$' added only when
\* absent); the '$'-stripped form therefore holds v when n has no leading '$'.
C1_TrimmedAndPrefixed ==
  Assigned =>
    LET n == trim(vlast.variable)
    IN /\ Holds(variables, n, vlast.value)
       /\ Holds(variables, Prefixed(n), vlast.value)
       /\ (~IsPrefixed(n) => Holds(variables, stripDollar(n), vlast.value))

\* as('$x', 5) on a fresh context: '$x' holds 5 and 'x' is not a key
C1_Witness ==
  /\ vlast.verb = "as"
  /\ vlast.variable = <<"$", "x">>
  /\ vlast.value = Num(5)
  /\ Holds(variables, <<"$", "x">>, Num(5))
  /\ <<"x">> \notin DOMAIN variables

\* C2 (as stated): for every unprefixed key k present in the table, table[k]
\* and table['$'+k] hold the same value.
C2_SpellingsAgree ==
  \A k \in DOMAIN variables :
    ~IsPrefixed(k) => Holds(variables, <<"$">> \o k, variables[k])

\* C2 (amended): for every unprefixed key k present in the table, '$'+k is
\* present too, and the two hold the same value whenever the most recent call
\* that wrote '$'+k spelled the name without the '$'; otherwise that call
\* spelled it '$'+k and wrote '$'+k alone.
C2_AgreeUnlessPrefixedWrite ==
  \A k \in DOMAIN variables :
    ~IsPrefixed(k) =>
      /\ <<"$">> \o k \in DOMAIN variables
      /\ writtenAs[<<"$">> \o k] \in {k, <<"$">> \o k}
      /\ (writtenAs[<<"$">> \o k] = k => variables[k] = variables[<<"$">> \o k])

\* 'x' then '$x' were assigned different values: x and $x disagree
C2_Witness ==
  /\ ncalls = 2
  /\ Holds(variables, <<"x">>, Num(0))
  /\ Holds(variables, <<"$", "x">>, Num(5))
  /\ writtenAs[<<"$", "x">>] = <<"$", "x">>

\* C3: as/assign with a name that is empty after trimming fails with
\* InvalidNameError (its promise is rejected) instead of storing a value.
C3_EmptyNameRejected ==
  (Assigned /\ trim(vlast.variable) = <<>>) =>
    /\ vlast.settled = "rejected"
    /\ <<>> \notin DOMAIN variables

\* C4: as/assign resolves to exactly the value it was given, for every name
\* and every value, undefined, null and falsy values included.
C4_ResolvesToValue ==
  Assigned => vlast.settled = "resolved" /\ vlast.result = vlast.value

\* assign(' x', 0) resolved to 0
C4_Witness ==
  /\ vlast.verb = "assign"
  /\ vlast.variable = <<" ", "x">>
  /\ vlast.value = Num(0)
  /\ vlast.result = Num(0)

(***************************************************************************)
(* Curried verbs: pow, abs, math-min, math-max (R.apply over R.curry /     *)
(* R.curryN of a Math function) and clamp (R.clamp.apply).  The callables  *)
(* follow ramda's internal _curry1, _curryN and _curry3 (the library the   *)
(* verbs import as R); the properties below use placeholders only in the   *)
(* shape pow(__, b), on which ramda's releases agree.                      *)
(***************************************************************************)
\* R.__, the value verb '__' returns
Placeholder == [t |-> "placeholder", v |-> 0]

isPlaceholder(a) == a = Placeholder

\* thrown by JavaScript when a value that is no function is called
TypeError == [t |-> "TypeError", v |-> 0]

\* thrown by R.clamp when min > max
ErrorThrown == [t |-> "Error", v |-> 0]

PosInf == [t |-> "Infinity", v |-> 1]
NegInf == [t |-> "Infinity", v |-> -1]

\* thrown by the expression library for a text it cannot parse
SyntaxError == [t |-> "SyntaxError", v |-> 0]

IsThrown(val) == val.t \in {"TypeError", "Error", "SyntaxError"}

\* the numbers a script hands to the math verbs
ArgNums == {Num(0), Num(2), Num(3)}
SignedNums == {Num(-2), Num(0), Num(3)}

\* arguments[i], undefined beyond the arguments given (1-based)
Arg(args, i) == IF i <= Len(args) THEN args[i] ELSE Undefined

\* ToNumber: an object such as R.__ and undefined give NaN
ToNumber(val) ==
  CASE val.t \in {"number", "Infinity", "NaN"} -> val
    [] val.t = "null" -> Num(0)
    [] val.t = "boolean" -> Num(val.v)
    [] OTHER -> NaN

RECURSIVE IntPow(_, _)
IntPow(x, y) == IF y <= 0 THEN 1 ELSE x * IntPow(x, y - 1)

\* Math.pow(x, y) on NaN and integers with y >= 0; further arguments are ignored
MathPow(args) ==
  LET x == ToNumber(Arg(args, 1))
      y == ToNumber(Arg(args, 2))
  IN IF y.t = "NaN" THEN NaN
     ELSE IF y.v = 0 THEN Num(1)
     ELSE IF x.t = "NaN" THEN NaN
     ELSE Num(IntPow(x.v, y.v))

\* Math.abs(x); further arguments are ignored
MathAbs(args) ==
  LET x == ToNumber(Arg(args, 1))
  IN IF x.t = "NaN" THEN NaN ELSE Num(IF x.v < 0 THEN 0 - x.v ELSE x.v)

RECURSIVE Least(_, _, _)
Least(args, i, acc) ==
  IF i > Len(args) THEN acc
  ELSE Least(args, i + 1, IF ToNumber(args[i]).v < acc THEN ToNumber(args[i]).v ELSE acc)

RECURSIVE Greatest(_, _, _)
Greatest(args, i, acc) ==
  IF i > Len(args) THEN acc
  ELSE Greatest(args, i + 1, IF ToNumber(args[i]).v > acc THEN ToNumber(args[i]).v ELSE acc)

\* Math.min(...args): over all its arguments, NaN if any is NaN, +Infinity for none
MathMin_firstTwo(args) ==
  IF \E i \in 1..2 : ToNumber(Arg(args, i)).t = "NaN" THEN NaN
  ELSE Num(Least(SubSeq(args, 1, 2), 2, ToNumber(args[1]).v))

MathMin(args) ==
  IF \E i \in 1..Len(args) : ToNumber(args[i]).t = "NaN" THEN NaN
  ELSE IF Len(args) = 0 THEN PosInf
  ELSE Num(Least(args, 2, ToNumber(args[1]).v))

\* Math.max(...args)
MathMax(args) ==
  IF \E i \in 1..Len(args) : ToNumber(args[i]).t = "NaN" THEN NaN
  ELSE IF Len(args) = 0 THEN NegInf
  ELSE Num(Greatest(args, 2, ToNumber(args[1]).v))

\* R.clamp's function: clamp(min, max, value) on numbers
Clamp(args) ==
  LET min == args[1]
      max == args[2]
      value == args[3]
  IN IF min.v > max.v THEN ErrorThrown
     ELSE IF value.v < min.v THEN min
     ELSE IF value.v > max.v THEN max
     ELSE value

\* fn.apply(this, args) of the wrapped function
\* the function the blocking wait curries: after the stall, return res
\* (the line  response = response ? response : ctx.$RESULT  is commented out)
sleep_fallback(period, res) == IF Truthy(res) THEN res ELSE RESULT

sleep(period, res) == res

Native(fn, args) ==
  CASE fn = "Math.pow" -> MathPow(args)
    [] fn = "Math.abs" -> MathAbs(args)
    [] fn = "Math.min" -> MathMin(args)
    [] fn = "Math.max" -> MathMax(args)
    [] fn = "clamp" -> Clamp(args)
    [] fn = "sleep" -> sleep(args[1], args[2])
    [] fn \in {"Math.round", "Math.trunc"} -> ToNumber(Arg(args, 1))

\* Function.prototype.length of the wrapped function
fnLength(fn) ==
  CASE fn = "Math.pow" -> 2
    [] fn = "Math.abs" -> 1
    [] fn = "Math.min" -> 2
    [] fn = "Math.max" -> 2
    [] fn = "clamp" -> 3
    [] fn = "sleep" -> 2
    [] fn \in {"Math.round", "Math.trunc"} -> 1

Callable(kind, fn, length, received) ==
  [t |-> "function", kind |-> kind, fn |-> fn, length |-> length, received |-> received]

\* R.curryN(length, fn)
curryN(length, fn) ==
  IF length = 1 THEN Callable("curry1", fn, 1, <<>>)
  ELSE Callable("curryN", fn, length, <<>>)

\* R.curry(fn) = curryN(fn.length, fn)
curry(fn) == curryN(fnLength(fn), fn)

\* R.clamp = _curry3(clamp): three open positions
Rclamp == Callable("curry3", "clamp", 3, <<Placeholder, Placeholder, Placeholder>>)

\* _curry1: f1(a) returns f1 for no argument or a placeholder, else fn.apply(this, arguments)
callCurry1(f, args) ==
  IF Len(args) = 0 \/ isPlaceholder(args[1]) THEN f ELSE Native(f.fn, args)

\* the loop of _curryN: merge the received arguments with the new ones, the new
\* ones filling the placeholders first and then following on
RECURSIVE curryNLoop(_, _, _, _, _, _)
curryNLoop(received, args, combinedIdx, argsIdx, combined, left) ==
  IF combinedIdx <= Len(received) \/ argsIdx <= Len(args)
  THEN LET fromReceived ==
             /\ combinedIdx <= Len(received)
             /\ (~isPlaceholder(received[combinedIdx]) \/ argsIdx > Len(args))
           result == IF fromReceived THEN received[combinedIdx] ELSE args[argsIdx]
       IN curryNLoop(received, args, combinedIdx + 1,
                     IF fromReceived THEN argsIdx ELSE argsIdx + 1,
                     Append(combined, result),
                     IF isPlaceholder(result) THEN left ELSE left - 1)
  ELSE [combined |-> combined, left |-> left]

\* _curryN(length, received, fn)(...args)
callCurryN_never(f, args) ==
  LET r == curryNLoop(f.received, args, 1, 1, <<>>, f.length)
  IN IF r.left < 0 THEN Native(f.fn, r.combined)
     ELSE [f EXCEPT !.received = r.combined]

callCurryN_forget(f, args) ==
  LET r == curryNLoop(<<>>, args, 1, 1, <<>>, f.length)
  IN IF r.left <= 0 THEN Native(f.fn, r.combined)
     ELSE [f EXCEPT !.received = r.combined]

callCurryN_strict(f, args) ==
  LET r == curryNLoop(f.received, args, 1, 1, <<>>, f.length)
  IN IF r.left <= 0
     THEN IF Len(r.combined) > f.length THEN ErrorThrown ELSE Native(f.fn, r.combined)
     ELSE [f EXCEPT !.received = r.combined]

callCurryN_append(f, args) ==
  LET r == curryNLoop(<<>>, f.received \o args, 1, 1, <<>>, f.length)
  IN IF r.left <= 0 THEN Native(f.fn, r.combined)
     ELSE [f EXCEPT !.received = r.combined]

callCurryN(f, args) ==
  LET r == curryNLoop(f.received, args, 1, 1, <<>>, f.length)
  IN IF r.left <= 0 THEN Native(f.fn, r.combined)
     ELSE [f EXCEPT !.received = r.combined]

\* _curry3 / _curry2 / _curry1: the arguments fill the open positions in order,
\* a placeholder leaves its position open, arguments beyond them are dropped
RECURSIVE fillOpen(_, _, _, _)
fillOpen(slots, args, i, j) ==
  IF i > Len(slots) \/ j > Len(args) THEN slots
  ELSE IF isPlaceholder(slots[i])
       THEN fillOpen([slots EXCEPT ![i] = args[j]], args, i + 1, j + 1)
       ELSE fillOpen(slots, args, i + 1, j)

callCurry3(f, args) ==
  LET slots == fillOpen(f.received, args, 1, 1)
  IN IF \E i \in 1..Len(slots) : isPlaceholder(slots[i])
     THEN [f EXCEPT !.received = slots]
     ELSE Native(f.fn, slots)

\* f.apply(this, args) of a callable made by ramda
Call(f, args) ==
  CASE f.kind = "curry1" -> callCurry1(f, args)
    [] f.kind = "curryN" -> callCurryN(f, args)
    [] f.kind = "curry3" -> callCurry3(f, args)

\* the JavaScript call expression output(...args)
callValue(target, args) ==
  IF target.t = "function" THEN Call(target, args) ELSE TypeError

RECURSIVE Flatten(_)
Flatten(lists) == IF lists = <<>> THEN <<>> ELSE Head(lists) \o Flatten(Tail(lists))

RECURSIVE ListsUpTo(_, _)
ListsUpTo(S, n) ==
  IF n = 0 THEN {<<>>}
  ELSE LET shorter == ListsUpTo(S, n - 1)
       IN shorter \cup {Append(l, x) : l \in {q \in shorter : Len(q) = n - 1}, x \in S}

\* the argument lists a script can write: numbers, and R.__ once it holds it
NumLists == ListsUpTo(ArgNums, MaxArgs)
NumOrPlaceholderLists == ListsUpTo(ArgNums \cup {Placeholder}, MaxArgs)
SignedLists == ListsUpTo(SignedNums, MaxArgs)
SignedOrPlaceholderLists == ListsUpTo(SignedNums \cup {Placeholder}, MaxArgs)

ArgLists(verb) ==
  IF verb = "abs"
  THEN (IF ph THEN SignedOrPlaceholderLists ELSE SignedLists)
  ELSE (IF ph THEN NumOrPlaceholderLists ELSE NumLists)

\* a verb body of the shape  return R.apply(f, args)  or  return f.apply(this, params);
\* a run follows one chain: the verb call and the invocations of what it returned
VerbCall(verb, f, args) ==
  /\ cverb = "none"
  /\ Len(args) <= MaxSupplied
  /\ cur' = Call(f, args)
  /\ cverb' = verb
  /\ chain' = <<args>>
  /\ clast' = [op |-> "verb", target |-> f, args |-> args]
  /\ UNCHANGED <<ph, RESULT, varsEnv, varsWait, varsMore>>

power(args) == VerbCall("pow", curry("Math.pow"), args)

abs(args) == VerbCall("abs", curry("Math.abs"), args)

mathMax(num) == VerbCall("math-max", curryN(2, "Math.max"), num)

mathMin(num) == VerbCall("math-min", curryN(2, "Math.min"), num)

clamp(params) == VerbCall("clamp", Rclamp, params)

\* verb '__' hands R.__ to the script
underscore ==
  /\ ~ph
  /\ cverb = "none"
  /\ ph' = TRUE
  /\ UNCHANGED <<cur, cverb, chain, clast, RESULT, varsEnv, varsWait, varsMore>>

\* the script calls the value the chain returned last: output(...args)
invoke(args) ==
  /\ cverb # "none"
  /\ ~IsThrown(cur)
  /\ Len(chain) <= MaxDepth
  /\ Len(Flatten(chain)) + Len(args) <= MaxSupplied
  /\ cur' = callValue(cur, args)
  /\ chain' = Append(chain, args)
  /\ clast' = [op |-> "invoke", target |-> cur, args |-> args]
  /\ UNCHANGED <<cverb, ph, RESULT, varsEnv, varsWait, varsMore>>

NextCurry ==
  \/ \E args \in ArgLists("pow") : power(args)
  \/ \E args \in ArgLists("abs") : abs(args)
  \/ \E num \in ArgLists("math-max") : mathMax(num)
  \/ \E num \in ArgLists("math-min") : mathMin(num)
  \/ \E params \in ArgLists("clamp") : clamp(params)
  \/ underscore
  \/ \E args \in ArgLists(cverb) : invoke(args)

SpecCurry == InitVars /\ [][NextCurry]_vars

(***************************************************************************)
(* Properties of the curried verbs (SpecCurry).                            *)
(***************************************************************************)
NoPlaceholder(list) == \A i \in 1..Len(list) : ~isPlaceholder(list[i])

IsNumber(val) == val.t = "number"

\* every argument of the chain, and those handed over before its last call
Supplied == Flatten(chain)
SuppliedBefore == Flatten(SubSeq(chain, 1, Len(chain) - 1))

FixedArityVerbs == {"pow", "abs", "clamp"}

\* the function a verb wraps and the number of arguments it waits for
FnOf(verb) ==
  CASE verb = "pow" -> "Math.pow"
    [] verb = "abs" -> "Math.abs"
    [] verb = "clamp" -> "clamp"
    [] verb = "math-min" -> "Math.min"
    [] verb = "math-max" -> "Math.max"

Arity(verb) ==
  CASE verb = "pow" -> 2
    [] verb = "abs" -> 1
    [] verb = "clamp" -> 3
    [] verb = "math-min" -> 2
    [] verb = "math-max" -> 2

\* the verb called once with the argument list args
OneCall(verb, args) ==
  CASE verb = "pow" -> Call(curry("Math.pow"), args)
    [] verb = "abs" -> Call(curry("Math.abs"), args)
    [] verb = "clamp" -> Call(Rclamp, args)

SetMin(S) == CHOOSE m \in S : \A x \in S : m <= x
SetMax(S) == CHOOSE m \in S : \A x \in S : m >= x

\* C5: for a verb wrapping an N-ary curried function (pow, abs, clamp), the N
\* arguments split in any way over the verb call and the invocations of the
\* returned callables give the Result of the verb called once with all N, and
\* every return before the N-th argument is a callable.
C5_SplitAnyWay ==
  (cverb \in FixedArityVerbs /\ NoPlaceholder(Supplied)
     /\ Len(SuppliedBefore) < Arity(cverb)) =>
    /\ (Len(Supplied) < Arity(cverb) => cur.t = "function")
    /\ (Len(Supplied) = Arity(cverb) =>
          cur.t # "function" /\ cur = OneCall(cverb, Supplied))

\* clamp() -> g, g(0) -> h, h(2, 3) = clamp(0, 2, 3) = 2
C5_Witness ==
  /\ cverb = "clamp"
  /\ chain = << <<>>, <<Num(0)>>, <<Num(2), Num(3)>> >>
  /\ cur = Num(2)

\* C6: a curried verb of declared arity N called with K >= N arguments returns
\* the function applied to the first N; the K-N trailing arguments change
\* nothing and raise nothing.
C6_ExtraArgsIgnored ==
  (cverb \in FixedArityVerbs /\ Len(chain) = 1 /\ NoPlaceholder(chain[1])
     /\ Len(chain[1]) >= Arity(cverb)) =>
    cur = Native(FnOf(cverb), SubSeq(chain[1], 1, Arity(cverb)))

\* pow(2, 3, 0) = 8
C6_Witness ==
  /\ cverb = "pow"
  /\ chain = << <<Num(2), Num(3), Num(0)>> >>
  /\ cur = Num(8)

\* C7: math-min / math-max return a callable while fewer than 2 numbers have
\* been handed over, and the min / max of all the numbers handed over once
\* they are 2 or more, in one call or accumulated over several.
C7_MinMaxOfAll ==
  (cverb \in {"math-min", "math-max"} /\ NoPlaceholder(Supplied)
     /\ Len(SuppliedBefore) < 2) =>
    IF Len(Supplied) < 2 THEN cur.t = "function"
    ELSE LET nums == {Supplied[i].v : i \in 1..Len(Supplied)}
         IN cur = Num(IF cverb = "math-min" THEN SetMin(nums) ELSE SetMax(nums))

\* min(3) -> f, f(2, 0) = 0
C7_Witness ==
  /\ cverb = "math-min"
  /\ chain = << <<Num(3)>>, <<Num(2), Num(0)>> >>
  /\ cur = Num(0)

\* C8: pow(__, b) returns a callable, and the next argument a goes to the
\* skipped position: f(a) = pow(a, b), not pow(b, a).
C8_PlaceholderKeepsPosition ==
  (cverb = "pow" /\ Len(chain) >= 1 /\ Len(chain[1]) = 2
     /\ isPlaceholder(chain[1][1]) /\ IsNumber(chain[1][2])) =>
    /\ (Len(chain) = 1 => cur.t = "function")
    /\ ((Len(chain) = 2 /\ Len(chain[2]) = 1 /\ IsNumber(chain[2][1])) =>
          cur = Num(IntPow(chain[2][1].v, chain[1][2].v)))

\* pow(__, 3) -> f, f(2) = 8 (and not 9)
C8_Witness ==
  /\ cverb = "pow"
  /\ chain = << <<Placeholder, Num(3)>>, <<Num(2)>> >>
  /\ cur = Num(8)

\* C9: calling the fully resolved Result of a curried verb raises an error
\* (JavaScript's TypeError stands for NotCallableError); no value comes back.
C9_ResultNotCallable ==
  (clast.op = "invoke" /\ NoPlaceholder(SuppliedBefore)
     /\ Len(SuppliedBefore) >= Arity(cverb)) =>
    cur = TypeError

\* pow(2, 3) = 8, then 8(...) raises
C9_Witness ==
  /\ cverb = "pow"
  /\ chain[1] = <<Num(2), Num(3)>>
  /\ clast.op = "invoke"
  /\ clast.target = Num(8)
  /\ cur = TypeError

(***************************************************************************)
(* Non-blocking wait(period, response): setTimeout inside a new Promise.   *)
(***************************************************************************)
MsPerSecond == 1000

\* the values a script hands to wait as response: falsy ones and truthy ones
ResponseValues == {Undefined, Null, Num(0), Bool(FALSE), Str(0), Num(5), Str(5)}

\* the values earlier pipeline stages leave in ctx.$RESULT
ResultValues == {Undefined, Num(0), Num(7)}

\* response = response ? response : ctx.$RESULT
chooseResponse(response, result) == IF Truthy(response) THEN response ELSE result

\* setTimeout(callback, period*1000): the time the callback is due
dueTime_ms(at, period) == at + period

dueTime(at, period) == at + period * MsPerSecond

\* wait(ctx, opts, period, response?): a response left out arrives as undefined
wait(period, supplied, response) ==
  /\ threadFree
  /\ ~wlast.called
  /\ LET given == IF supplied THEN response ELSE Undefined
     IN /\ timer' = [active |-> TRUE, callback |-> "response",
                     due |-> dueTime(now, period),
                     response |-> chooseResponse(given, RESULT)]
        /\ wlast' = [called |-> TRUE, revision |-> "response", supplied |-> supplied,
                     response |-> given, period |-> period, at |-> now,
                     result |-> RESULT]
  /\ promise' = [state |-> "pending", value |-> Undefined]
  /\ UNCHANGED <<now, RESULT, varsEnv, varsCurry, varsMore>>

\* the timeout's callback runs, no sooner than its due time: resolve(response)
timeout ==
  /\ threadFree
  /\ timer.active
  /\ timer.callback = "response"
  /\ now >= timer.due
  /\ promise' = [state |-> "resolved", value |-> timer.response]
  /\ timer' = [timer EXCEPT !.active = FALSE]
  /\ UNCHANGED <<now, wlast, RESULT, varsEnv, varsCurry, varsMore>>

\* the earlier revision wait(ctx, opts, period): its callback reads ctx.$RESULT;
\* the call stores nothing on the context
waitPeriod_store(period) ==
  /\ threadFree
  /\ ~wlast.called
  /\ timer' = [active |-> TRUE, callback |-> "result", due |-> dueTime(now, period),
               response |-> Undefined]
  /\ wlast' = [called |-> TRUE, revision |-> "period", supplied |-> FALSE,
               response |-> Undefined, period |-> period, at |-> now,
               result |-> RESULT]
  /\ promise' = [state |-> "pending", value |-> Undefined]
  /\ RESULT' = Num(period)
  /\ UNCHANGED <<now, varsEnv, varsCurry, varsMore>>

waitPeriod(period) ==
  /\ threadFree
  /\ ~wlast.called
  /\ timer' = [active |-> TRUE, callback |-> "result", due |-> dueTime(now, period),
               response |-> Undefined]
  /\ wlast' = [called |-> TRUE, revision |-> "period", supplied |-> FALSE,
               response |-> Undefined, period |-> period, at |-> now,
               result |-> RESULT]
  /\ promise' = [state |-> "pending", value |-> Undefined]
  /\ UNCHANGED <<now, RESULT, varsEnv, varsCurry, varsMore>>

\* its callback, no sooner than its due time: resolve(ctx.$RESULT)
timeoutPeriod ==
  /\ threadFree
  /\ timer.active
  /\ timer.callback = "result"
  /\ now >= timer.due
  /\ promise' = [state |-> "resolved", value |-> RESULT]
  /\ timer' = [timer EXCEPT !.active = FALSE]
  /\ UNCHANGED <<now, wlast, RESULT, varsEnv, varsCurry, varsMore>>

\* a second of timer time passes; the run follows the clock up to MaxTime
\* seconds and, past that, until the timeout that is set has become due and
\* the stall in progress has ended
tick ==
  /\ \/ now < MaxTime * MsPerSecond
     \/ timer.active /\ now < timer.due
     \/ pc = "stalling" /\ now < stall.until
  /\ now' = now + MsPerSecond
  /\ UNCHANGED <<timer, promise, wlast, RESULT, varsEnv, varsCurry, varsMore>>

\* the interpreter stores the result of another verb call in ctx.$RESULT;
\* nothing in it reaches the timeout wait has set
setLastResult_cancel(value) ==
  /\ threadFree
  /\ RESULT' = value
  /\ timer' = [timer EXCEPT !.active = FALSE]
  /\ UNCHANGED <<now, promise, wlast, varsEnv, varsCurry, varsMore>>

setLastResult(value) ==
  /\ threadFree
  /\ RESULT' = value
  /\ UNCHANGED <<varsWait, varsEnv, varsCurry, varsMore>>

NextWait ==
  \/ \E period \in 0..MaxPeriod, supplied \in BOOLEAN, response \in ResponseValues :
       wait(period, supplied, response)
  \/ timeout
  \/ \E period \in 0..MaxPeriod : waitPeriod(period)
  \/ timeoutPeriod
  \/ tick
  \/ \E value \in ResultValues : setLastResult(value)

SpecWait == InitVars /\ [][NextWait]_vars

\* the timers of the host run every callback that is due, and its clock advances
SpecWaitFair ==
  SpecWait /\ WF_vars(tick) /\ WF_vars(timeout) /\ WF_vars(timeoutPeriod)

(***************************************************************************)
(* Properties of the non-blocking wait (SpecWait).                         *)
(***************************************************************************)
\* C10: a wait whose response was explicitly supplied resolves with that
\* response whatever it is (0, false, the empty string and null included); it
\* resolves with the context's $RESULT only when no response was supplied.
C10_SuppliedResponseWins ==
  (promise.state = "resolved" /\ wlast.revision = "response") =>
    /\ ((wlast.supplied /\ wlast.response # Undefined) =>
          promise.value = wlast.response)
    /\ (~wlast.supplied => promise.value = wlast.result)

\* C11: wait(period) without a response never resolves before period seconds
\* of timer time have passed since the call, and the value it resolves with is
\* the context's $RESULT (as it is when the wait resolves).
C11_NotBeforePeriod ==
  [][(wlast.revision = "period" /\ promise.state = "pending"
        /\ promise'.state = "resolved") =>
       /\ now >= wlast.at + wlast.period * MsPerSecond
       /\ promise'.value = RESULT]_vars

\* wait(2) called at time 0 with $RESULT undefined resolved with 7, the $RESULT
\* of the moment, once 2 seconds had passed
C11_Witness ==
  /\ wlast.revision = "period"
  /\ wlast.period = 2
  /\ wlast.at = 0
  /\ wlast.result = Undefined
  /\ promise = [state |-> "resolved", value |-> Num(7)]
  /\ now = 2 * MsPerSecond

\* C12: every started wait completes: once wait has been called with a finite
\* period >= 0, under a fair timer its promise is eventually resolved; it is
\* never rejected, and nothing cancels it or leaves it pending for ever.
C12_EventuallyResolved ==
  /\ (wlast.called ~> promise.state = "resolved")
  /\ [](promise.state \in {"none", "pending", "resolved"})
  /\ [][promise.state = "resolved" => promise'.state = "resolved"]_vars

\* a wait of 2 seconds was pending while $RESULT changed, and resolved
C12_Witness ==
  /\ wlast.called
  /\ wlast.period = 2
  /\ wlast.result # RESULT
  /\ promise.state = "resolved"

(***************************************************************************)
(* Blocking wait: R.apply(R.curry(sleep), params), sleep stalling the      *)
(* thread in Atomics.wait for period*1000 ms and then returning res.       *)
(***************************************************************************)
PeriodValues == {Num(p) : p \in 0..MaxPeriod}

\* the values handed over as res: undefined, falsy ones and a truthy one
BlockResponses == {Undefined, Null, Num(0), Str(5)}

\* the parameter lists of a script line: wait, wait period, wait period response
BlockParams ==
  {<<>>} \cup {<<p>> : p \in PeriodValues}
         \cup {<<p, r>> : p \in PeriodValues, r \in BlockResponses}

\* what a script hands to the callable wait returned
BlockArgs(f) ==
  IF f.t # "function" THEN {}
  ELSE IF f.received = <<>> THEN BlockParams
  ELSE {<<>>} \cup {<<r>> : r \in BlockResponses}

\* the arguments sleep runs with once the curried function has both
sleepArgs(f, args) == curryNLoop(f.received, args, 1, 1, <<>>, f.length).combined

\* a call of the curried sleep: short of arguments it returns a callable at
\* once; with both it enters Atomics.wait(..., period * 1000)
callSleep(f, args) ==
  LET ret == Call(f, args)
  IN IF ret.t = "function"
     THEN /\ cur' = ret
          /\ UNCHANGED <<pc, stall, varsLate>>
     ELSE /\ pc' = "stalling"
          /\ stall' = [from |-> now,
                       until |-> dueTime(now, sleepArgs(f, args)[1].v),
                       res |-> ret]
          /\ UNCHANGED cur

\* async wait(ctx, opts, ...params)
bwait(params) ==
  /\ threadFree
  /\ cverb = "none"
  /\ callSleep(curry("sleep"), params)
  /\ cverb' = "wait"
  /\ chain' = <<params>>
  /\ clast' = [op |-> "verb", target |-> curry("sleep"), args |-> params,
               at |-> now, result |-> RESULT]
  /\ UNCHANGED <<ph, listening, heard, RESULT, varsEnv, varsWait, varsEval, got, out, varsLate>>

\* the script calls the callable wait returned: fn(...args)
binvoke(args) ==
  /\ threadFree
  /\ cverb = "wait"
  /\ cur.t = "function"
  /\ Len(chain) <= MaxDepth
  /\ callSleep(cur, args)
  /\ chain' = Append(chain, args)
  /\ clast' = [op |-> "invoke", target |-> cur, args |-> args,
               at |-> now, result |-> RESULT]
  /\ UNCHANGED <<cverb, ph, listening, heard, RESULT, varsEnv, varsWait, varsEval, got, out, varsLate>>

\* Atomics.wait times out, no sooner than after its time: sleep returns res
wake ==
  /\ pc = "stalling"
  /\ now >= stall.until
  /\ pc' = "idle"
  /\ cur' = stall.res
  /\ UNCHANGED <<stall, cverb, chain, clast, ph, listening, heard, RESULT,
                 varsEnv, varsWait, varsEval, got, out, varsLate>>

\* listen-on: event.on(evtName, (...params) => cb(params))
on ==
  /\ threadFree
  /\ listening = "none"
  /\ listening' = "on"
  /\ UNCHANGED <<pc, stall, heard, RESULT, varsEnv, varsCurry, varsWait, varsEval, got, out, varsLate>>

\* listen-once: event.once(evtName, (...params) => resolve(params))
listenOnce ==
  /\ threadFree
  /\ listening = "none"
  /\ listening' = "once"
  /\ UNCHANGED <<pc, stall, heard, RESULT, varsEnv, varsCurry, varsWait, varsEval, got, out, varsLate>>

\* the event is emitted and the registered listener runs cb(params)
listenerCallback ==
  /\ threadFree
  /\ listening # "none"
  /\ heard < MaxHeard
  /\ heard' = heard + 1
  /\ listening' = IF listening = "once" THEN "none" ELSE listening
  /\ UNCHANGED <<pc, stall, RESULT, varsEnv, varsCurry, varsWait, varsEval, got, out, varsLate>>

NextBlock ==
  \/ \E params \in BlockParams : bwait(params)
  \/ \E args \in BlockArgs(cur) : binvoke(args)
  \/ wake
  \/ tick
  \/ on
  \/ listenOnce
  \/ listenerCallback
  \/ waitPeriod(1)
  \/ timeoutPeriod
  \/ setLastResult(Num(7))

SpecBlock == InitVars /\ [][NextBlock]_vars

C14_PeriodOnlyPauses ==
  (cverb = "wait" /\ Len(chain) = 1 /\ Len(chain[1]) = 1 /\ pc = "idle") =>
    /\ cur = clast.result
    /\ now >= clast.at + chain[1][1].v * MsPerSecond

\* C15: while the blocking wait stalls, no other scheduled work runs: no timer
\* callback resolves its promise, no listener callback runs, no listener is
\* registered, and no other pipeline stage takes a step.
C15_NothingRunsWhileStalling ==
  [][pc = "stalling" =>
       /\ promise' = promise
       /\ timer' = timer
       /\ wlast' = wlast
       /\ heard' = heard
       /\ listening' = listening
       /\ RESULT' = RESULT
       /\ chain' = chain
       /\ variables' = variables]_vars

\* one second into a stall of two, a timeout is due and a listener is
\* registered, and neither has run
C15_Witness ==
  /\ pc = "stalling"
  /\ stall.until = stall.from + 2 * MsPerSecond
  /\ now = stall.from + MsPerSecond
  /\ timer.active
  /\ now >= timer.due
  /\ promise.state = "pending"
  /\ listening = "on"
  /\ heard = 0

(***************************************************************************)
(* evaluate: math.compile(expression), then expr.eval(scope) at once or    *)
(* inside the callable lateFn. The expression library is not part of the   *)
(* sources; compile and eval follow its contract: a text is a sequence of  *)
(* tokens, operands joined by + and -, evaluated from left to right.       *)
(***************************************************************************)
\* String.fromCharCode('a'.charCodeAt(0) + i), i = 0, 1, ...: the lowercase
\* letters and, from i = 26 on, the characters that follow 'z'
Alphabet ==
  <<"a", "b", "c", "d", "e", "f", "g", "h", "i", "j", "k", "l", "m", "n", "o", "p",
    "q", "r", "s", "t", "u", "v", "w", "x", "y", "z", "{", "|", "}", "~">>

\* the expression texts of the runs: closed, with one and two symbols, and two
\* the library cannot parse ('a +' and '( a')
EvalTexts ==
  { <<"9", "+", "4">>, <<"a", "+", "4">>, <<"a", "-", "b">>, <<"a", "+">>, <<"(", "a">> }

EvalArgLists == ListsUpTo({Num(4), Num(5)}, MaxEvalArgs)

\* the node of one operand: a numeral or a symbol
operandNode(tok) ==
  CASE tok = "4" -> [k |-> "const", n |-> 4]
    [] tok = "9" -> [k |-> "const", n |-> 9]
    [] OTHER -> [k |-> "symbol", name |-> tok]

isOperand(tok) == tok \in {"4", "9"} \/ \E i \in 1..26 : Alphabet[i] = tok

\* operands joined by operators, grouped from the left
RECURSIVE parseFrom(_, _, _)
parseFrom(tokens, i, left) ==
  IF i > Len(tokens) THEN left
  ELSE IF /\ tokens[i] \in {"+", "-"}
          /\ i + 1 <= Len(tokens)
          /\ isOperand(tokens[i + 1])
       THEN parseFrom(tokens, i + 2,
                      [k |-> "op", op |-> tokens[i], l |-> left,
                       r |-> operandNode(tokens[i + 1])])
       ELSE SyntaxError

\* math.compile(expression): the parsed expression, or a SyntaxError thrown
compile(expression) ==
  IF expression # <<>> /\ isOperand(expression[1])
  THEN LET node == parseFrom(expression, 2, operandNode(expression[1]))
       IN IF node = SyntaxError THEN SyntaxError
          ELSE [t |-> "compiled", v |-> 0, node |-> node]
  ELSE SyntaxError

\* the value of a node in a scope; a symbol the scope lacks throws an Error
RECURSIVE evalNode(_, _)
evalNode(node, scope) ==
  CASE node.k = "const" -> Num(node.n)
    [] node.k = "symbol" ->
         IF scope.t = "object" /\ node.name \in DOMAIN scope.props
         THEN scope.props[node.name]
         ELSE ErrorThrown
    [] node.k = "op" ->
         LET x == evalNode(node.l, scope)
             y == evalNode(node.r, scope)
         IN IF IsThrown(x) THEN x
            ELSE IF IsThrown(y) THEN y
            ELSE Num(IF node.op = "+" THEN x.v + y.v ELSE x.v - y.v)

\* expr.eval(scope)
exprEval(expr, scope) == evalNode(expr.node, scope)

\* argMapToObj(args): undefined for no arguments, else { a: args[0], b: args[1], ... }
argMapToObj(args) ==
  IF Len(args) = 0 THEN Undefined
  ELSE Obj([name \in {Alphabet[i] : i \in 1..Len(args)} |->
              args[CHOOSE i \in 1..Len(args) : Alphabet[i] = name]])

\* lateFn(...fnargs): allArgs = args.concat(fnargs); expr.eval(argMapToObj(allArgs))
lateFn_swapped(expr, args, fnargs) == exprEval(expr, argMapToObj(fnargs \o args))

lateFn(expr, args, fnargs) == exprEval(expr, argMapToObj(args \o fnargs))

\* what evaluate returns, or throws: compile comes first, then the choice
\* between the callable and the value on opts['function'] and objArg
evaluateOut_always(retFn, expression, args) ==
  LET expr == compile(expression)
      objArg == argMapToObj(args)
  IN IF IsThrown(expr) THEN expr
     ELSE IF retFn = Bool(TRUE) THEN Callable("lateFn", "expr.eval", 0, args)
     ELSE exprEval(expr, objArg)

evaluateOut_lazy(retFn, expression, args) ==
  LET expr == compile(expression)
      objArg == argMapToObj(args)
  IN IF retFn = Bool(TRUE) THEN Callable("lateFn", "expr.eval", 0, args)
     ELSE IF retFn # Bool(FALSE) /\ ~Truthy(objArg)
     THEN Callable("lateFn", "expr.eval", 0, args)
     ELSE IF IsThrown(expr) THEN expr
     ELSE exprEval(expr, objArg)

evaluateOut(retFn, expression, args) ==
  LET expr == compile(expression)
      objArg == argMapToObj(args)
  IN IF IsThrown(expr) THEN expr
     ELSE IF retFn = Bool(TRUE) THEN Callable("lateFn", "expr.eval", 0, args)
     ELSE IF retFn = Bool(FALSE) THEN exprEval(expr, objArg)
     ELSE IF Truthy(objArg) THEN exprEval(expr, objArg)
     ELSE Callable("lateFn", "expr.eval", 0, args)

\* async evaluate(ctx, opts, expression, ...args), opts['function'] being
\* true, false or absent
evaluate(retFn, expression, args) ==
  /\ ~ev.called
  /\ ev' = [called |-> TRUE, function |-> retFn, expression |-> expression,
            args |-> args, objArg |-> argMapToObj(args),
            expr |-> compile(expression), compiles |-> 1,
            out |-> evaluateOut(retFn, expression, args)]
  /\ UNCHANGED <<late, got, out, RESULT, varsEnv, varsCurry, varsWait, varsBlock, varsLate>>

\* the script calls the callable evaluate returned; it evaluates the
\* expression evaluate compiled, with the arguments evaluate was given
callLate_recompile(fnargs) ==
  /\ ev.called
  /\ ev.out.t = "function"
  /\ late' = [called |-> TRUE, fnargs |-> fnargs,
              out |-> lateFn(compile(ev.expression), ev.out.received, fnargs)]
  /\ ev' = [ev EXCEPT !.compiles = @ + 1]
  /\ UNCHANGED <<got, out, RESULT, varsEnv, varsCurry, varsWait, varsBlock, varsLate>>

callLate(fnargs) ==
  /\ ev.called
  /\ ev.out.t = "function"
  /\ late' = [called |-> TRUE, fnargs |-> fnargs,
              out |-> lateFn(ev.expr, ev.out.received, fnargs)]
  /\ UNCHANGED <<ev, got, out, RESULT, varsEnv, varsCurry, varsWait, varsBlock, varsLate>>

NextEval ==
  \/ \E retFn \in {Bool(TRUE), Bool(FALSE), Undefined}, expression \in EvalTexts,
        args \in EvalArgLists : evaluate(retFn, expression, args)
  \/ \E fnargs \in EvalArgLists : callLate(fnargs)

SpecEval == InitVars /\ [][NextEval]_vars

(***************************************************************************)
(* Properties of evaluate (SpecEval).                                      *)
(***************************************************************************)
\* C16: evaluate returns the deferred callable exactly when options.function
\* is true, or is absent and no positional argument was given; in every other
\* case it evaluates at once (to a value, or to the error of the evaluation).
C16_DeferredExactlyWhen ==
  (ev.called /\ compile(ev.expression) # SyntaxError) =>
    (ev.out.t = "function" <=>
       \/ ev.function = Bool(TRUE)
       \/ ev.function = Undefined /\ ev.args = <<>>)

\* with function absent and one argument, 'a + 4' gave 9 at once
C16_Witness ==
  /\ ev.called
  /\ ev.function = Undefined
  /\ ev.expression = <<"a", "+", "4">>
  /\ ev.args = <<Num(5)>>
  /\ ev.out = Num(9)

\* C17: the callable binds the arguments of evaluate first and those of its
\* own call after them: its value is the expression under a, b, ... bound to
\* evaluate's arguments followed by the call's.
C17_EvaluateArgsFirst ==
  late.called =>
    late.out = exprEval(compile(ev.expression), argMapToObj(ev.args \o late.fnargs))

\* evaluate({function: true}, 'a - b', 5), then f(4): a = 5, b = 4, value 1
C17_Witness ==
  /\ ev.function = Bool(TRUE)
  /\ ev.expression = <<"a", "-", "b">>
  /\ ev.args = <<Num(5)>>
  /\ late.called
  /\ late.fnargs = <<Num(4)>>
  /\ late.out = Num(1)

\* C18: an expression text that cannot be parsed fails with the syntax error
\* at the evaluate call itself, whatever options.function is; evaluate never
\* hands out a callable for it that would fail later.
C18_SyntaxErrorAtCall ==
  (ev.called /\ compile(ev.expression) = SyntaxError) =>
    /\ ev.out = SyntaxError
    /\ ~late.called

\* evaluate({function: true}, 'a +') threw the syntax error
C18_Witness ==
  /\ ev.called
  /\ ev.function = Bool(TRUE)
  /\ ev.expression = <<"a", "+">>
  /\ ev.out = SyntaxError

(***************************************************************************)
(* getElement(items, ...position): v = v[position[i]] key by key.          *)
(***************************************************************************)
GetKeys == {"a", "b"}

\* the containers: primitives, objects holding primitives under any of the
\* keys, and objects holding such an object or a primitive under 'a'
GetItems ==
  LET leaves == {Undefined, Null, Num(5)}
      flat == {Obj(f) : f \in UNION {[S -> leaves] : S \in SUBSET GetKeys}}
  IN leaves \cup flat \cup {Obj([k \in {"a"} |-> x]) : x \in flat \cup leaves}

GetPaths == ListsUpTo(GetKeys, MaxPath)

\* v[key]: a TypeError on undefined and null, undefined where the key is absent
propertyOf(v, key) ==
  IF v.t \in {"undefined", "null"} THEN TypeError
  ELSE IF v.t = "object" THEN Get(v.props, key)
  ELSE Undefined

\* the loop of getElement from key i on
RECURSIVE getWalk(_, _, _)
getWalk(v, position, i) ==
  IF i > Len(position) THEN v
  ELSE LET next == propertyOf(v, position[i])
       IN IF IsThrown(next) THEN next
          ELSE IF next = Undefined THEN Undefined
          ELSE getWalk(next, position, i + 1)

\* async getElement(ctx, opts, items, ...position)
getElement(items, position) ==
  /\ ~got.called
  /\ got' = [called |-> TRUE, items |-> items, position |-> position,
             out |-> getWalk(items, position, 1)]
  /\ UNCHANGED <<out, RESULT, varsEnv, varsCurry, varsWait, varsBlock, varsEval, varsLate>>

NextGet == \E items \in GetItems, position \in GetPaths : getElement(items, position)

SpecGet == InitVars /\ [][NextGet]_vars

\* the value the keys lead to from v, undefined where a key leads nowhere
RECURSIVE Reached(_, _, _)
Reached(v, position, i) ==
  IF i > Len(position) THEN v
  ELSE IF v.t = "object" /\ position[i] \in DOMAIN v.props
       THEN Reached(v.props[position[i]], position, i + 1)
       ELSE Undefined

\* C19: getElement(items, k1, ..., kn) returns the value reached by following
\* the keys, and for every other input (a key that is absent, a path through
\* null, a null or undefined container) returns undefined without raising.
C19_ValueOrUndefined ==
  got.called =>
    /\ ~IsThrown(got.out)
    /\ got.out = Reached(got.items, got.position, 1)

(***************************************************************************)
(* log, stdout and data-type.                                              *)
(***************************************************************************)
Arr == [t |-> "array", v |-> 0]

\* the values handed to the three verbs
OutputValues ==
  {Undefined, Null, Num(0), Num(5), NaN, Bool(FALSE), Bool(TRUE), Str(0), Str(5),
   Arr, Obj(EmptyObj), Placeholder, Callable("native", "console.log", 0, <<>>)}

\* print (verb log): a truthy text is written and returned, else console.log
print(text) ==
  /\ out' = IF Truthy(text)
            THEN [verb |-> "log", arg |-> text, written |-> <<text>>, result |-> text]
            ELSE [verb |-> "log", arg |-> text, written |-> <<>>,
                  result |-> Callable("native", "console.log", 0, <<>>)]
  /\ UNCHANGED <<got, RESULT, varsEnv, varsCurry, varsWait, varsBlock, varsEval, varsLate>>

\* stdout: a truthy text is written and returned, else a function that writes
stdout(text) ==
  /\ out' = IF Truthy(text)
            THEN [verb |-> "stdout", arg |-> text, written |-> <<text>>, result |-> text]
            ELSE [verb |-> "stdout", arg |-> text, written |-> <<>>,
                  result |-> Callable("native", "process.stdout.write", 1, <<>>)]
  /\ UNCHANGED <<got, RESULT, varsEnv, varsCurry, varsWait, varsBlock, varsEval, varsLate>>

\* the later revision of print (verb console-log): write the text, return it
consoleLog(text) ==
  /\ out' = [verb |-> "console-log", arg |-> text, written |-> <<text>>, result |-> text]
  /\ UNCHANGED <<got, RESULT, varsEnv, varsCurry, varsWait, varsBlock, varsEval, varsLate>>

\* instanceof Array, then instanceof Object, then typeof
typeLabel_typeof(item) ==
  CASE item.t \in {"array", "object", "placeholder", "null"} -> "object"
    [] item.t \in {"number", "NaN", "Infinity"} -> "number"
    [] OTHER -> item.t

typeLabel(item) ==
  CASE item.t = "array" -> "array"
    [] item.t \in {"object", "function", "placeholder"} -> "object"
    [] item.t = "null" -> "object"
    [] item.t \in {"number", "NaN", "Infinity"} -> "number"
    [] OTHER -> item.t

dataType(item) ==
  /\ out' = [verb |-> "data-type", arg |-> item, written |-> <<>>,
             result |-> typeLabel(item)]
  /\ UNCHANGED <<got, RESULT, varsEnv, varsCurry, varsWait, varsBlock, varsEval, varsLate>>

\* the exit status of a process that ends with no code given
DefaultStatus == 0

\* process.exit(code): the status is the code, or the default when there is none
processExit(code) == IF code.t = "number" THEN code.v ELSE DefaultStatus

\* exit: if(code) process.exit(); else process.exit(code);
exit(code) ==
  /\ proc' = [exited |-> TRUE, code |-> code,
              status |-> IF Truthy(code) THEN processExit(Undefined)
                         ELSE processExit(code)]
  /\ UNCHANGED <<hist, twin, out, got, RESULT, varsEnv, varsCurry, varsWait, varsBlock,
                 varsEval>>

\* the verbs that write to the terminal or end the process; nothing runs in a
\* process that has exited
NextOut ==
  /\ ~proc.exited
  /\ \/ \E text \in OutputValues : print(text)
     \/ \E text \in OutputValues : consoleLog(text)
     \/ \E text \in OutputValues : stdout(text)
     \/ \E item \in OutputValues : dataType(item)
     \/ \E code \in {Undefined, Num(0), Num(1), Num(2)} : exit(code)

SpecOut == InitVars /\ [][NextOut]_vars

\* C21: log returns exactly the value it was given, for every input value,
\* after printing it.
C21_LogReturnsInput ==
  out.verb \in {"log", "console-log"} =>
    /\ out.written = <<out.arg>>
    /\ out.result = out.arg

\* C22: exit called with a code c ends the process with status c, for every
\* number c; called without a code it ends with the default status.
C22_ExitStatusIsCode ==
  proc.exited =>
    proc.status = IF proc.code.t = "number" THEN proc.code.v ELSE DefaultStatus

\* C25, as claimed: data-type gives 'array' for an array, 'object' for any
\* other object and otherwise the name of the primitive type (so 'null' for
\* null).
C25_LabelIsTypeName ==
  out.verb = "data-type" =>
    out.result = CASE out.arg.t = "array" -> "array"
                   [] out.arg.t \in {"object", "function", "placeholder"} -> "object"
                   [] out.arg.t \in {"number", "NaN", "Infinity"} -> "number"
                   [] OTHER -> out.arg.t

\* C25, amended: as above, except that null, which is no object, is labelled
\* 'object' as well (typeof null).
C25_LabelIsTypeof ==
  out.verb = "data-type" =>
    /\ out.arg.t = "array" => out.result = "array"
    /\ out.arg.t \in {"object", "function", "placeholder", "null"} =>
         out.result = "object"
    /\ out.arg.t \in {"number", "NaN", "Infinity"} => out.result = "number"
    /\ out.arg.t \in {"undefined", "boolean", "string"} => out.result = out.arg.t

\* data-type of an array gave 'array'
C25_Witness ==
  /\ out.verb = "data-type"
  /\ out.arg = Arr
  /\ out.result = "array"

(***************************************************************************)
(* One context, every verb: a script of up to MaxCalls verb calls, the     *)
(* callbacks they leave behind, and the interpreter storing $RESULT.       *)
(***************************************************************************)
\* the verb calls made on the context so far
verbsCalled ==
  ncalls + (IF wlast.called THEN 1 ELSE 0) + (IF cverb # "none" THEN 1 ELSE 0)
         + (IF ev.called THEN 1 ELSE 0) + (IF got.called THEN 1 ELSE 0)
         + (IF out.verb # "none" THEN 1 ELSE 0)

NextFrame ==
  \/ /\ verbsCalled < MaxCalls
     /\ \/ \E value \in {Num(0), Num(5)} : as(<<"x">>, value)
        \/ \E value \in {Num(0), Num(5)} : assign(<<"$", "x">>, value)
        \/ \E supplied \in BOOLEAN : wait(1, supplied, Num(5))
        \/ \E period \in 0..MaxPeriod : waitPeriod(period)
        \/ \E params \in {<<Num(1)>>, <<Num(1), Str(5)>>} : bwait(params)
        \/ power(<<Num(2)>>)
        \/ clamp(<<Num(0), Num(3), Num(2)>>)
        \/ \E text \in OutputValues : print(text)
        \/ \E text \in OutputValues : stdout(text)
        \/ \E item \in OutputValues : dataType(item)
        \/ \E position \in {<<"a">>, <<"b">>} :
             getElement(Obj([k \in {"a"} |-> Num(5)]), position)
        \/ \E retFn \in {Bool(TRUE), Undefined} :
             evaluate(retFn, <<"a", "+", "4">>, <<Num(5)>>)
  \/ timeout
  \/ timeoutPeriod
  \/ tick
  \/ wake
  \/ cverb = "wait" /\ binvoke(<<Str(5)>>)
  \/ cverb = "pow" /\ invoke(<<Num(3)>>)
  \/ callLate(<<>>)
  \/ \E value \in {Num(7)} : setLastResult(value)

SpecFrame == InitVars /\ [][NextFrame]_vars

\* C20: only as and assign write the variable table: every call of wait (either
\* variant, its callback included), log, stdout, data-type, getElement,
\* evaluate or a curried verb, and every call of a callable one of them
\* returned, leaves every key of ctx.variables and ctx.$RESULT as it was.
C20_OnlyAssignWrites ==
  [][(\/ wlast' # wlast \/ timer' # timer \/ promise' # promise
      \/ cur' # cur \/ chain' # chain \/ pc' # pc
      \/ out' # out \/ got' # got \/ ev' # ev \/ late' # late) =>
       /\ variables' = variables
       /\ RESULT' = RESULT]_vars

\* as('x', 5), then wait(2) resolved with the $RESULT 7: 'x' still reads 5
C20_Witness ==
  /\ vlast.verb = "as"
  /\ Holds(variables, <<"x">>, Num(5))
  /\ Holds(variables, <<"$", "x">>, Num(5))
  /\ wlast.revision = "period"
  /\ wlast.period = 2
  /\ promise = [state |-> "resolved", value |-> Num(7)]
  /\ RESULT = Num(7)

(***************************************************************************)
(* A callable kept by the script and called again and again; round and     *)
(* truncate, which hand a number to R.apply; the forwarding verbs use-with *)
(* and unapply.                                                            *)
(***************************************************************************)
\* fn.apply(this, num) with num no array: undefined and null stand for no
\* arguments, any other primitive is a TypeError (it is not array-like)
functionApply(f, num) ==
  IF num.t \in {"undefined", "null"} THEN Call(f, <<>>) ELSE TypeError

\* a verb body of the shape  return R.apply(R.curry(fn), num)  with num: number
NumberCall(verb, f, num) ==
  /\ cur' = functionApply(f, num)
  /\ cverb' = verb
  /\ chain' = << <<num>> >>
  /\ clast' = [op |-> "verb", target |-> f, args |-> <<num>>]
  /\ UNCHANGED <<ph, RESULT, varsEnv, varsWait, varsMore>>

round(num) == NumberCall("round", curry("Math.round"), num)

trunc(num) == NumberCall("truncate", curry("Math.trunc"), num)

\* R.useWith(...) and R.unapply(...): the library function applied to the
\* arguments, as a term
libraryCall(name, args) == Callable("applied", name, 0, args)

\* R.<owner>.<method>(this, params): a function has the methods of
\* Function.prototype, apply among them, and no property named after a verb;
\* calling the undefined property is a TypeError
methodCall(owner, method, params) ==
  IF method = "apply" THEN libraryCall(owner, params) ELSE TypeError

\* a verb body of the shape  return R.<owner>.<method>(this, params)
ForwardCall(verb, owner, method, params) ==
  /\ cur' = methodCall(owner, method, params)
  /\ cverb' = verb
  /\ chain' = <<params>>
  /\ clast' = [op |-> "verb", target |-> Undefined, args |-> params]
  /\ UNCHANGED <<ph, RESULT, varsEnv, varsWait, varsMore>>

useWith(params) == ForwardCall("use-with", "useWith", "apply", params)

unapply(params) == ForwardCall("unapply", "apply", "unapply", params)

\* the script calls the callable the verb returned once more; the callable
\* itself stays as it is
reinvoke_mutating(args) ==
  /\ cur.t = "function"
  /\ cur.kind \in {"curry1", "curryN", "curry3"}
  /\ Len(hist) < MaxInvocations
  /\ hist' = Append(hist, [args |-> args, result |-> Call(cur, args)])
  /\ cur' = [cur EXCEPT !.received = cur.received \o args]
  /\ UNCHANGED <<cverb, chain, clast, ph, proc, twin, out, got, RESULT, varsEnv,
                 varsWait, varsBlock, varsEval>>

reinvoke(args) ==
  /\ cur.t = "function"
  /\ cur.kind \in {"curry1", "curryN", "curry3"}
  /\ Len(hist) < MaxInvocations
  /\ hist' = Append(hist, [args |-> args, result |-> Call(cur, args)])
  /\ UNCHANGED <<proc, twin, out, got, RESULT, varsEnv, varsCurry, varsWait,
                 varsBlock, varsEval>>

\* the same for the callable evaluate returned
reinvokeLate(fnargs) ==
  /\ ev.called
  /\ ev.out.t = "function"
  /\ Len(hist) < MaxInvocations
  /\ hist' = Append(hist, [args |-> fnargs,
                           result |-> lateFn(ev.expr, ev.out.received, fnargs)])
  /\ UNCHANGED <<proc, twin, out, got, RESULT, varsEnv, varsCurry, varsWait,
                 varsBlock, varsEval>>

\* one verb call, then calls of what it returned
NextHold ==
  \/ /\ cverb = "none"
     /\ ~ev.called
     /\ \/ \E args \in {<<>>, <<Num(2)>>, <<Num(3)>>, <<Num(2), Num(3)>>} : power(args)
        \/ \E params \in {<<Num(0)>>, <<Num(0), Num(3)>>, <<Num(0), Num(3), Num(2)>>} :
             clamp(params)
        \/ \E args \in {<<>>, <<Num(2)>>} : abs(args)
        \/ \E num \in {Undefined, NaN, Num(0), Num(2), Num(3)} : round(num)
        \/ \E num \in {Undefined, NaN, Num(0), Num(2), Num(3)} : trunc(num)
        \/ \E params \in {<<>>, <<Rclamp>>, <<Rclamp, Arr>>} : useWith(params)
        \/ \E params \in {<<>>, <<Rclamp>>, <<Rclamp, Num(2)>>} : unapply(params)
        \/ \E retFn \in {Bool(TRUE), Undefined}, args \in {<<>>, <<Num(5)>>} :
             evaluate(retFn, <<"a", "-", "b">>, args)
  \/ \E args \in {<<>>, <<Num(2)>>, <<Num(3)>>} : reinvoke(args)
  \/ \E fnargs \in {<<Num(4)>>, <<Num(5)>>, <<Num(4), Num(5)>>} : reinvokeLate(fnargs)

SpecHold == InitVars /\ [][NextHold]_vars

\* C23: round and truncate called with one number return a number, as abs
\* does; they raise no error for a numeric argument.
C23_RoundReturnsNumber ==
  (cverb \in {"round", "truncate", "abs"} /\ Len(chain[1]) = 1
     /\ chain[1][1].t = "number") =>
    cur.t = "number"

\* C24: a forwarding verb returns the library function of its own name applied
\* to exactly the verb's positional arguments: use-with gives
\* R.useWith(...params), unapply gives R.unapply(...params), clamp gives
\* R.clamp(...params).
C24_ForwardsToNamesake ==
  /\ cverb = "use-with" => cur = libraryCall("useWith", chain[1])
  /\ cverb = "unapply" => cur = libraryCall("unapply", chain[1])
  /\ cverb = "clamp" => cur = Call(Rclamp, chain[1])

\* C27: a partial application is an immutable snapshot: every call of the
\* callable a curried verb or evaluate returned gives what the callable as it
\* was returned gives for the arguments of that call, whatever calls came
\* before; equal arguments give equal results.
C27_CallsAreIndependent ==
  \A i \in 1..Len(hist) :
    /\ cverb \in {"pow", "clamp", "abs"} =>
         hist[i].result = callValue(Call(clast.target, chain[1]), hist[i].args)
    /\ ev.called =>
         hist[i].result = exprEval(ev.expr, argMapToObj(ev.args \o hist[i].args))
    /\ \A j \in 1..Len(hist) :
         hist[i].args = hist[j].args => hist[i].result = hist[j].result

\* f = pow(2); f(3) = 8, then f(2) = 4, then f(3) = 8 again
C27_Witness ==
  /\ cverb = "pow"
  /\ chain = << <<Num(2)>> >>
  /\ hist = << [args |-> <<Num(3)>>, result |-> Num(8)],
               [args |-> <<Num(2)>>, result |-> Num(4)],
               [args |-> <<Num(3)>>, result |-> Num(8)] >>

(***************************************************************************)
(* Further properties of the variable table (SpecVars).                    *)
(***************************************************************************)
\* C26: last write wins, with no history: a call of as / assign leaves its
\* value under the two keys of its own name (the trimmed name and its
\* '$'-prefixed form), whatever they held, and every other key as it was; the
\* keys present are the keys some call wrote.
C26_LastWriteWins ==
  /\ [](DOMAIN variables = DOMAIN writtenAs)
  /\ [][ncalls' # ncalls =>
          LET name == trim(vlast'.variable)
              keys == {name, dollarKey(name)}
          IN /\ DOMAIN variables' = DOMAIN variables \cup keys
             /\ \A k \in keys : variables'[k] = vlast'.value
             /\ \A k \in DOMAIN variables \ keys : variables'[k] = variables[k]]_vars

\* 'x' was written twice, last with 0: both of its keys hold 0
C26_Witness ==
  /\ ncalls = 2
  /\ vlast.value = Num(0)
  /\ trim(vlast.variable) = <<"x">>
  /\ writtenAs[<<"x">>] = <<"x">>
  /\ variables[<<"x">>] = Num(0)
  /\ variables[<<"$", "x">>] = Num(0)
  /\ DOMAIN variables = {<<"x">>, <<"$", "x">>}

(***************************************************************************)
(* Further properties of evaluate (SpecEval).                              *)
(***************************************************************************)
\* C28: a call of evaluate compiles its text exactly once; calls of the
\* callable it returned, however many and with whatever arguments, compile
\* nothing more and evaluate that one compiled expression.
C28_CompiledOnce ==
  /\ [](ev.called => ev.compiles = 1)
  /\ [][late' # late =>
          /\ ev'.compiles = ev.compiles
          /\ ev'.expr = ev.expr
          /\ late'.out = exprEval(ev.expr, argMapToObj(ev.args \o late'.fnargs))]_vars

\* the callable of evaluate('a - b') was called with (4, 5): one compilation
C28_Witness ==
  /\ ev.called
  /\ ev.expression = <<"a", "-", "b">>
  /\ ev.args = <<>>
  /\ ev.compiles = 1
  /\ late.called
  /\ late.fnargs = <<Num(4), Num(5)>>
  /\ late.out = Num(-1)

(***************************************************************************)
(* evaluate with long argument lists: the binding argMapToObj builds.      *)
(***************************************************************************)
\* argument lists of every length up to MaxBind, of two contents each
BindLists ==
  {[i \in 1..n |-> Num(4 + ((i + k) % 2))] : n \in 0..MaxBind, k \in 0..1}

NextBind ==
  \/ \E retFn \in {Bool(TRUE), Bool(FALSE), Undefined}, args \in BindLists :
       evaluate(retFn, <<"a", "+", "4">>, args)
  \/ \E fnargs \in {<<>>, <<Num(4)>>} : callLate(fnargs)

SpecBind == InitVars /\ [][NextBind]_vars

\* C29: for an argument list of any length, position i (from 0) is bound to
\* the i-th lowercase letter: every key of the binding is one of 'a'..'z',
\* different positions have different keys, and each key holds the argument of
\* its position; an empty list gives the undefined binding, not an empty object.
C29_BoundToLetters ==
  ev.called =>
    IF ev.args = <<>> THEN ev.objArg = Undefined
    ELSE /\ ev.objArg.t = "object"
         /\ DOMAIN ev.objArg.props \subseteq {Alphabet[i] : i \in 1..26}
         /\ Cardinality(DOMAIN ev.objArg.props) = Len(ev.args)
         /\ \A i \in 1..Len(ev.args) :
              i <= 26 => ev.objArg.props[Alphabet[i]] = ev.args[i]

(***************************************************************************)
(* The two timer revisions of wait, called with a period only at the same  *)
(* moment on the same context; their timeouts fall due together.           *)
(***************************************************************************)
\* wait(ctx, opts, period) of either revision: the later one chooses its
\* response now, the earlier one keeps nothing
twinWait(period) ==
  /\ threadFree
  /\ ~twin.called
  /\ twin' = [called |-> TRUE, at |-> now, period |-> period,
              due |-> dueTime(now, period), fired |-> FALSE,
              response |-> chooseResponse(Undefined, RESULT),
              byPeriod |-> [state |-> "pending", value |-> Undefined],
              byResponse |-> [state |-> "pending", value |-> Undefined]]
  /\ UNCHANGED <<proc, hist, out, got, RESULT, varsEnv, varsCurry, varsWait, varsBlock,
                 varsEval>>

\* the two callbacks run: resolve(ctx.$RESULT) and resolve(response)
twinTimeout ==
  /\ threadFree
  /\ twin.called
  /\ ~twin.fired
  /\ now >= twin.due
  /\ twin' = [twin EXCEPT !.fired = TRUE,
                          !.byPeriod = [state |-> "resolved", value |-> RESULT],
                          !.byResponse = [state |-> "resolved", value |-> twin.response]]
  /\ UNCHANGED <<proc, hist, out, got, RESULT, varsEnv, varsCurry, varsWait, varsBlock,
                 varsEval>>

NextTwin ==
  \/ \E period \in 0..MaxPeriod : twinWait(period)
  \/ twinTimeout
  \/ tick
  \/ \E value \in ResultValues : setLastResult(value)

SpecTwin == InitVars /\ [][NextTwin]_vars

\* C30: called with a period only, on the same context and with the same
\* updates of $RESULT while they are pending, the two timer revisions of wait
\* resolve with the same value.
C30_RevisionsAgree ==
  twin.fired => twin.byPeriod.value = twin.byResponse.value

====
